---- MODULE Spec2Model ----
(***************************************************************************)
(* pymurgy: the hop utilization / bitterness engine                        *)
(* (src/pymurgy/ingredients/hop.py, src/pymurgy/calc.py).                  *)
(*                                                                         *)
(* Python floats are modelled as fixed-point integers:                     *)
(*   factors (gravity, exp/ln values, cooling coefficient)  1 = 10^-4      *)
(*   elapsed time t, integration_time, util_time            1 = 10^-3 min  *)
(*   temperatures                                           1 = 10^-2 deg  *)
(*   utilization                                            1 = 10^-6      *)
(*   bitterness                                             1 = 10^-3 IBU  *)
(* exp, log, sqrt and ** are computed by integer series, so that rounding  *)
(* is deterministic and every intermediate value fits a 32-bit integer.    *)
(***************************************************************************)
EXTENDS Integers, Sequences, FiniteSets, TLC

\* ------------------------------------------------------------------ units
Scale == 10^4
TimeScale == 10^3
TempScale == 10^2
UtilScale == 10^6

\* --------------------------------------------------- bounds of the model
\* Hop.time ranges over 0..MaxHopTime minutes.
MaxHopTime == 2
\* whirlpool_time ranges over 0..MaxWhirlpool minutes.
MaxWhirlpool == 1
\* The calling program makes at most MaxCalls calls.
MaxCalls == 2

\* ---------------------------------------------------------- arithmetic
Max(a, b) == IF a >= b THEN a ELSE b
Min(a, b) == IF a <= b THEN a ELSE b
Abs(a) == IF a >= 0 THEN a ELSE -a
\* Python's float division rounds to nearest; the fixed-point quotient is
\* truncated toward zero.
Quot(a, b) == IF (a >= 0) = (b > 0) THEN Abs(a) \div Abs(b) ELSE -(Abs(a) \div Abs(b))
\* The quotient rounded to the nearest integer, for b > 0.
QuotR(a, b) == IF a >= 0 THEN (2 * a + b) \div (2 * b) ELSE -((2 * (-a) + b) \div (2 * b))
\* Python's a / b on floats, for b # 0: the quotient rounded to nearest.
Div(a, b) == IF b > 0 THEN QuotR(a, b) ELSE QuotR(-a, -b)
CeilDiv(a, b) == IF a <= 0 THEN 0 ELSE (a + b - 1) \div b

\* e^(f/Scale) for 0 <= f < Scale, the power series summed until its terms
\* vanish.
RECURSIVE ExpSeries(_, _, _)
ExpSeries(f, term, k) ==
    IF term = 0 THEN 0 ELSE term + ExpSeries(f, (term * f) \div (Scale * k), k + 1)

\* e^-1 in fixed point.
InvE == 3679
RECURSIVE ExpNeg(_)
\* e^(-x/Scale) for x >= 0.
ExpNeg(x) ==
    IF x >= 12 * Scale THEN 0
    ELSE IF x >= Scale THEN (ExpNeg(x - Scale) * InvE) \div Scale
    ELSE (Scale * Scale) \div ExpSeries(x, Scale, 1)

\* math.exp(x/Scale), for x up to about 1.
Exp(x) == IF x <= 0 THEN ExpNeg(-x) ELSE ExpSeries(x, Scale, 1)

\* ln 2 in fixed point.
Ln2 == 6931
\* atanh(z) = z + z^3/3 + z^5/5 + ..., on values scaled by 10 * Scale,
\* |z| <= 0.18.
RECURSIVE AtanhSeries(_, _, _)
AtanhSeries(z2, term, k) ==
    IF term = 0 THEN 0 ELSE QuotR(term, k) + AtanhSeries(z2, QuotR(term * z2, Scale), k + 2)

RECURSIVE Ln(_)
\* math.log(x/Scale) for x > 0.
Ln(x) ==
    IF 10 * x < 7 * Scale THEN Ln(2 * x) - Ln2
    ELSE IF 10 * x > 14 * Scale THEN Ln(x \div 2) + Ln2
    ELSE LET z == QuotR((x - Scale) * 10 * Scale, x + Scale)
         IN  QuotR(2 * AtanhSeries(QuotR(z * z, 100 * Scale), z, 1), 10)

RECURSIVE SqrtIter(_, _)
SqrtIter(n, r) ==
    LET next == (r + n \div r) \div 2
    IN  IF next >= r THEN r ELSE SqrtIter(n, next)
\* math.sqrt(n) for an integer n >= 0, rounded down.
Sqrt(n) == IF n = 0 THEN 0 ELSE SqrtIter(n, n)

\* base ** (num/den) for a fixed-point base > 0: e^(num/den * ln base).
Pow(base, num, den) == Exp(Quot(Ln(base) * num, den))

\* ------------------------------------------------------------- calc.py
\* None (an omitted opening_area, the first utilization sample).
None == -1
NoError == "none"
TargetError == "ValueError: Target temperature can not be lower than surrounding temperature"
MathDomainError == "ValueError: math domain error"
ZeroDivisionError == "ZeroDivisionError"
UnboundLocalError == "UnboundLocalError"

\* 273.15 in hundredths of a degree.
KelvinOffset == 27315
celsius_to_kelvin(celsius) == celsius + KelvinOffset
kelvin_to_celsius(kelvin) == kelvin - KelvinOffset

\* The outcome of a call: the value returned, or the exception raised.
Ok(v) == [err |-> NoError, val |-> v]
Raise(e) == [err |-> e, val |-> 0]

\* The validation of cooling_coefficient and cool_time.
TargetTooLowStrict(temp_surround, temp_target) == temp_target < temp_surround
TargetTooLow(temp_surround, temp_target) == temp_target <= temp_surround

\* math.log((temp_target - temp_surround) / (temp_init - temp_surround)).
LogTempRatio(temp_surround, temp_target, temp_init) ==
    IF temp_init = temp_surround THEN Raise(ZeroDivisionError)
    ELSE LET ratio == Div((temp_target - temp_surround) * Scale, temp_init - temp_surround)
         IN  IF ratio <= 0 THEN Raise(MathDomainError) ELSE Ok(Ln(ratio))

\* The initial temperature cooling_coefficient and cool_time default to.
BoilingC == 10000

\* calc.cooling_coefficient: time in minutes, the result per minute.
cooling_coefficient(temp_surround, temp_target, time, temp_init) ==
    IF TargetTooLow(temp_surround, temp_target) THEN Raise(TargetError)
    ELSE IF time = 0 THEN Raise(ZeroDivisionError)
    ELSE LET l == LogTempRatio(temp_surround, temp_target, temp_init)
         IN  IF l.err # NoError THEN l ELSE Ok(Div(-l.val, time))

\* calc.cool_time: the result in thousandths of a minute.
cool_time_times_coefficient(temp_surround, temp_target, coefficient, temp_init) ==
    IF TargetTooLow(temp_surround, temp_target) THEN Raise(TargetError)
    ELSE LET l == LogTempRatio(temp_surround, temp_target, temp_init)
         IN  IF l.err # NoError THEN l
             ELSE Ok(Div(Div(-l.val * coefficient, Scale) * TimeScale, Scale))
cool_time(temp_surround, temp_target, coefficient, temp_init) ==
    IF TargetTooLow(temp_surround, temp_target) THEN Raise(TargetError)
    ELSE LET l == LogTempRatio(temp_surround, temp_target, temp_init)
         IN  IF l.err # NoError THEN l
             ELSE IF coefficient = 0 THEN Raise(ZeroDivisionError)
             ELSE Ok(Div(-l.val * TimeScale, coefficient))

\* -------------------------------------------------------------- hop.py
\* Stage (common.py).
Stages == {"MASH", "BOIL", "FERMENT", "CONDITION"}

\* k_extract = (post_boil_gravity - 1) * post_boil_volume
KExtract(a) == (a.post_boil_gravity - Scale) * a.post_boil_volume

\* pre_boil_volume = k_extract / (pre_boil_gravity - 1), in millilitres.
PreBoilVolume(a) ==
    IF a.pre_boil_gravity = Scale THEN Raise(ZeroDivisionError)
    ELSE Ok(Div(KExtract(a) * 1000, a.pre_boil_gravity - Scale))

\* boil_off_rate = 1 - (post_boil_volume / pre_boil_volume) ** (1 / boil_time)
BoilOffRate(a, pre_boil_volume) ==
    IF pre_boil_volume = 0 \/ a.boil_time = 0 THEN Raise(ZeroDivisionError)
    ELSE Ok(Scale - Pow(Div(a.post_boil_volume * 1000 * Scale, pre_boil_volume), 1, a.boil_time))

\* gravity = 1 + k_extract / (pre_boil_volume * (1 - boil_off_rate) ** (add_time + t))
BoilGravity(k_extract, pre_boil_volume, boil_off_rate, add_time, t) ==
    LET remaining == Pow(Scale - boil_off_rate, add_time * TimeScale + t, TimeScale)
    IN  Scale + Div(k_extract * 1000, Div(pre_boil_volume * remaining, Scale))

\* The constants of the natural cooling curve: 0.0002925 and 0.00538 per
\* 10^-7, 53.6 and 319.55 in hundredths of a degree.
NaturalCoolSlope == 2925
NaturalCoolBase == 53800
NaturalCoolSpan == 5360
NaturalCoolFloorK == 31955

\* b = 0.0002925 * sqrt(surface_area * opening_area) / post_boil_volume + 0.00538
\* temp_k = 53.6 * exp(-b * (t - time)) + 319.55
WhirlpoolTempK(surface_area, opening_area, post_boil_volume, since_flameout) ==
    LET b == Div(NaturalCoolSlope * Sqrt(surface_area * opening_area), post_boil_volume)
             + NaturalCoolBase
    IN  Div(NaturalCoolSpan * Exp(-Div(b * since_flameout, 10^6)), Scale) + NaturalCoolFloorK

\* temp_k = celsius_to_kelvin((temp_post_whirlpool - temp_approach)
\*              * exp(-cooling_coefficient * (t - whirlpool_time - time)) + temp_approach)
ForcedTempK(temp_post_whirlpool, temp_approach, coefficient, since_whirlpool) ==
    celsius_to_kelvin(
        Div((temp_post_whirlpool - temp_approach)
            * Exp(-Div(coefficient * since_whirlpool, TimeScale)), Scale)
        + temp_approach)

\* -ln(0.000125), and 1.65 * 0.04 / 4.15 in 10^-6.
BignessLog == 89872
RateCoefficient == 15904

dUNegated(gravity, t) ==
    -Div(Div(Exp(-Div((gravity - Scale) * BignessLog, Scale)) * Exp(-Div(4 * t, 10)), Scale)
         * RateCoefficient, Scale)
\* dU = -1.65 * 0.000125 ** (gravity - 1.0) * -0.04 * exp(-0.04 * t) / 4.15
dU(gravity, t) ==
    Div(Div(Exp(-Div((gravity - Scale) * BignessLog, Scale)) * Exp(-Div(4 * t, 10)), Scale)
        * RateCoefficient, Scale)

\* ln(2.39 * 10^11), and the 9773 of the exponent.
ArrheniusLog == 261997
ArrheniusK == 9773
\* The minutes during which degree_of_utilization is forced to 1.
NonIaaMinutes == 5

\* degree_of_utilization = min(1.0, 2.39 * 10.0**11.0 * exp(-9773.0 / temp_k));
\* if t < 5.0: degree_of_utilization = 1.0
DegreeOfUtilizationUnclamped(temp_k, t) ==
    IF t < NonIaaMinutes * TimeScale THEN Scale
    ELSE LET whole == (ArrheniusK * TempScale) \div temp_k
             part == Div(((ArrheniusK * TempScale) % temp_k) * Scale, temp_k)
         IN  Exp(ArrheniusLog - (whole * Scale + part))
DegreeOfUtilization(temp_k, t) ==
    IF t < NonIaaMinutes * TimeScale THEN Scale
    ELSE LET whole == (ArrheniusK * TempScale) \div temp_k
             part == Div(((ArrheniusK * TempScale) % temp_k) * Scale, temp_k)
             arg == ArrheniusLog - (whole * Scale + part)
         IN  IF arg >= 0 THEN Scale ELSE Min(Scale, Exp(arg))

\* utilization * aa * 1000.0 * g / post_boil_volume, aa in thousandths.
IbuWithoutVolume(utilization, aa, g, post_boil_volume) ==
    IF post_boil_volume = 0 THEN Raise(ZeroDivisionError)
    ELSE Ok(Div(utilization * aa, 1000) * g)
Ibu(utilization, aa, g, post_boil_volume) ==
    IF post_boil_volume = 0 THEN Raise(ZeroDivisionError)
    ELSE Ok(Div(Div(utilization * aa, 1000) * g, post_boil_volume))

\* 1.65 / 4.15 in 10^-5.
TinsethCoefficient == 39759
\* bigness_factor * boil_time_factor of utilization_tinseth, in 10^-6:
\* 1.65 * 0.000125 ** ((pre + post) / 2 - 1) * (1 - e ** (-0.04 * time)) / 4.15
TinsethUtilizationPostBoil(time, pre_boil_gravity, post_boil_gravity) ==
    LET bigness == Exp(-Div((post_boil_gravity - Scale) * BignessLog, Scale))
        boil == Scale - Exp(-(400 * time))
    IN  Div(Div(bigness * boil, Scale) * TinsethCoefficient, 1000)
TinsethUtilization(time, pre_boil_gravity, post_boil_gravity) ==
    LET bigness == Exp(-Div((Div(pre_boil_gravity + post_boil_gravity, 2) - Scale) * BignessLog, Scale))
        boil == Scale - Exp(-(400 * time))
    IN  Div(Div(bigness * boil, Scale) * TinsethCoefficient, 1000)


\* --------------------------------------------------------------- state
VARIABLES
    integration_time,   \* Hop.integration_time, the class variable
    store_graph,        \* Hop.store_graph, the class variable
    hops,               \* the Hop objects: their fields and their graph
    frames,             \* per calling thread, the call it is in or has left
    pool,               \* the argument tuples the calling program passes
    ncalls              \* the calls the program has made

vars == <<integration_time, store_graph, hops, frames, pool, ncalls>>

\* Hop.reset_graph: {"time": [], "temperature": [], "utilization": []}
EmptyGraph ==
    [time |-> <<>>, temperature |-> <<>>, utilization |-> <<>>, ibu |-> <<>>, has_ibu |-> FALSE]

\* The values Hop.integration_time is set to, in thousandths of a minute.
IntegrationTimes == {750, 1000}

\* The cooling coefficients the caller computes, as the tests do, with
\* calc.cooling_coefficient(7, 20, minutes).
Coefficient(minutes) == cooling_coefficient(700, 2000, minutes, BoilingC).val

\* surface_area's default.
DefaultArea == 900
Args(pre, post, approach, target, k, volume, whirlpool) ==
    [pre_boil_gravity |-> pre, post_boil_gravity |-> post, temp_approach |-> approach,
     temp_target |-> target, cooling_coefficient |-> k, boil_time |-> MaxHopTime + 1,
     post_boil_volume |-> volume, whirlpool_time |-> whirlpool,
     surface_area |-> DefaultArea, opening_area |-> None]

\* A brew the documentation's preconditions hold of, and the same brew with
\* one precondition broken.
ValidArgs ==
    {Args(10550, 10650, 700, target, Coefficient(m), 20, w) :
        target \in {2000, BoilingC}, m \in {2, 4}, w \in 0..MaxWhirlpool}
InvalidArgs ==
    {Args(pre, 10650, 700, 2000, Coefficient(2), 20, 0) : pre \in {Scale}}
    \cup {Args(10550, post, 700, 2000, Coefficient(2), 20, 0) : post \in {Scale}}
    \cup {Args(10550, 10650, 700, 2000, Coefficient(2), volume, 0) : volume \in {0}}
    \cup {Args(10550, 10650, approach, 2000, Coefficient(2), 20, w) :
            approach \in {2000, 2500}, w \in 0..MaxWhirlpool}
\* The valid brew in a kettle of another geometry: a smaller surface with
\* the opening omitted, through a whirlpool; and a smaller surface and a
\* smaller opening, with no whirlpool.
GeometryArgs ==
    {[Args(10550, 10650, 700, 2000, Coefficient(2), 20, MaxWhirlpool)
        EXCEPT !.surface_area = 400],
     [Args(10550, 10650, 700, 2000, Coefficient(2), 20, 0)
        EXCEPT !.surface_area = 400, !.opening_area = 100]}
ArgPool == ValidArgs \cup InvalidArgs \cup GeometryArgs

HopFields ==
    [stage : Stages, time : 0..MaxHopTime, g : {0, 20}, aa : {100}]
    \cup {[stage |-> "BOIL", time |-> MaxHopTime, g |-> 20, aa |-> 0]}
NewHop(fields) ==
    [stage |-> fields.stage, time |-> fields.time, g |-> fields.g, aa |-> fields.aa,
     graph |-> EmptyGraph]

\* A name not yet assigned (temp_post_whirlpool before the boundary).
Unbound == -100000

IdleFrame ==
    [pc |-> "idle", method |-> "none", self |-> 0, args |-> Args(0, 0, 0, 0, 0, 0, 0),
     k_extract |-> 0, pre_boil_volume |-> 0, boil_off_rate |-> 0, add_time |-> 0,
     gravity |-> 0, opening_area |-> 0, util_time |-> 0, t |-> 0, temp_k |-> 0,
     u_total |-> 0, whirlpool_done |-> FALSE, temp_post_whirlpool |-> Unbound,
     result |-> 0, err |-> NoError,
     \* not in the code: what the call has done so far
     dt |-> 0, sg |-> FALSE, nsteps |-> 0, estimators |-> 0, branch |-> "none",
     extensions |-> 0, overlapped |-> FALSE,
     \* Recipe.ibu, when the call is made by it: the calls of Hop.ibu it has
     \* made and the values they returned
     caller |-> "program", invoked |-> <<>>, results |-> <<>>]

Threads == DOMAIN frames
HopIds == DOMAIN hops
Running(c) == frames[c].pc = "loop"
Idle(c) == frames[c].pc = "idle" /\ ncalls < MaxCalls
Quiet == \A c \in Threads : ~Running(c)

Init ==
    /\ integration_time \in IntegrationTimes
    /\ store_graph \in BOOLEAN
    /\ \E fields \in HopFields : hops = [h \in {1} |-> NewHop(fields)]
    /\ frames = [c \in {1} |-> IdleFrame]
    /\ \E a \in ArgPool : pool = {a}
    /\ ncalls = 0

\* Hop.integration_time = v, between calls.
SetIntegrationTime(v) ==
    /\ Quiet
    /\ v # integration_time
    /\ integration_time' = v
    /\ UNCHANGED <<store_graph, hops, frames, pool, ncalls>>

\* Hop.store_graph = b, between calls.
SetStoreGraph(b) ==
    /\ Quiet
    /\ b # store_graph
    /\ store_graph' = b
    /\ UNCHANGED <<integration_time, hops, frames, pool, ncalls>>

\* self.graph = ...: graph is an attribute of the instance, set by
\* reset_graph in __post_init__, and every later write goes through self.
SelfGraphOfClass(h, graph) == [i \in DOMAIN hops |-> [hops[i] EXCEPT !.graph = graph]]
SelfGraph(h, graph) == [hops EXCEPT ![h].graph = graph]

\* hop.reset_graph()
ResetGraph(h) ==
    /\ Quiet
    /\ hops[h].graph # EmptyGraph
    /\ hops' = SelfGraph(h, EmptyGraph)
    /\ UNCHANGED <<integration_time, store_graph, frames, pool, ncalls>>

Called(method, h, a) ==
    [IdleFrame EXCEPT !.method = method, !.self = h, !.args = a,
                      !.dt = integration_time, !.sg = store_graph,
                      !.overlapped = \E d \in Threads : Running(d) /\ frames[d].self = h]
\* The frames once thread c has entered a call on hop h: the calls that are
\* running on h have had another call on h start during them.
Entering(c, h, f) ==
    [d \in Threads |->
        IF d = c THEN f
        ELSE IF Running(d) /\ frames[d].self = h /\ f.pc = "loop"
             THEN [frames[d] EXCEPT !.overlapped = TRUE]
             ELSE frames[d]]
Returned(f, v) == [f EXCEPT !.pc = "returned", !.result = v]
Raised(f, e) == [f EXCEPT !.pc = "raised", !.err = e]
Finished(f, outcome) ==
    IF outcome.err = NoError THEN Returned(f, outcome.val) ELSE Raised(f, outcome.err)

\* calc.cooling_coefficient(temp_approach, temp_target, minutes)
CallCoolingCoefficient(c, a, minutes) ==
    /\ Idle(c)
    /\ frames' = [frames EXCEPT ![c] =
          Finished(Called("cooling_coefficient", 0, a),
                   cooling_coefficient(a.temp_approach, a.temp_target, minutes, BoilingC))]
    /\ ncalls' = ncalls + 1
    /\ UNCHANGED <<integration_time, store_graph, hops, pool>>

\* calc.cool_time(temp_approach, temp_target, cooling_coefficient)
CallCoolTime(c, a) ==
    /\ Idle(c)
    /\ frames' = [frames EXCEPT ![c] =
          Finished(Called("cool_time", 0, a),
                   cool_time(a.temp_approach, a.temp_target, a.cooling_coefficient, BoilingC))]
    /\ ncalls' = ncalls + 1
    /\ UNCHANGED <<integration_time, store_graph, hops, pool>>

\* The graph after lines 82-86 of utilization_mibu.
GraphAtEntryWithoutReset(h) ==
    IF store_graph
    THEN [hops[h].graph EXCEPT !.time = Append(@, 0), !.temperature = Append(@, BoilingC),
                               !.utilization = Append(@, None)]
    ELSE hops[h].graph
GraphAtEntry(h) ==
    IF store_graph
    THEN [EmptyGraph EXCEPT !.time = <<0>>, !.temperature = <<BoilingC>>,
                            !.utilization = <<None>>]
    ELSE hops[h].graph

\* u_total = 0.0
InitialUtilizationKept(h) == Len(hops[h].graph.utilization)
InitialUtilization(h) == 0

\* if opening_area is None: opening_area = surface_area
OpeningAreaOrDefault(a) == IF a.opening_area = None THEN DefaultArea ELSE a.opening_area
OpeningArea(a) == IF a.opening_area = None THEN a.surface_area ELSE a.opening_area

\* Lines 87-98 of utilization_mibu: the frame when the loop is entered, or
\* the exception the extract balance raises.
Entered(f, h, a) ==
    LET volume == PreBoilVolume(a)
        rate == IF volume.err = NoError THEN BoilOffRate(a, volume.val) ELSE volume
    IN  IF rate.err # NoError THEN Raised([f EXCEPT !.estimators = @ + 1], rate.err)
        ELSE [f EXCEPT !.pc = "loop", !.estimators = @ + 1,
                       !.k_extract = KExtract(a),
                       !.pre_boil_volume = volume.val,
                       !.boil_off_rate = rate.val,
                       !.add_time = a.boil_time - hops[h].time,
                       !.gravity = a.post_boil_gravity,
                       !.opening_area = OpeningArea(a),
                       !.util_time = (hops[h].time + a.whirlpool_time) * TimeScale,
                       !.t = 0,
                       !.temp_k = celsius_to_kelvin(BoilingC),
                       !.u_total = InitialUtilization(h),
                       !.whirlpool_done = FALSE]

\* hop.utilization_mibu(...)
CallUtilizationMibu(c, h, a) ==
    /\ Idle(c)
    /\ hops' = SelfGraph(h, GraphAtEntry(h))
    /\ frames' = Entering(c, h, Entered(Called("utilization_mibu", h, a), h, a))
    /\ ncalls' = ncalls + 1
    /\ UNCHANGED <<integration_time, store_graph, pool>>

\* if self.stage == Stage.BOIL
StageGateMashOnly(h) == hops[h].stage # "MASH"
StageGate(h) == hops[h].stage = "BOIL"

\* hop.ibu(...)
CallIbu(c, h, a) ==
    /\ Idle(c)
    /\ IF StageGate(h)
       THEN /\ hops' = SelfGraph(h, GraphAtEntry(h))
            /\ frames' = Entering(c, h, Entered(Called("ibu", h, a), h, a))
       ELSE /\ hops' = hops
            /\ frames' = [frames EXCEPT ![c] = Returned(Called("ibu", h, a), 0)]
    /\ ncalls' = ncalls + 1
    /\ UNCHANGED <<integration_time, store_graph, pool>>

\* hop.utilization_tinseth(pre_boil_gravity, post_boil_gravity)
utilization_tinseth_on_boil(h, a) ==
    IF hops[h].stage = "BOIL"
    THEN TinsethUtilization(hops[h].time, a.pre_boil_gravity, a.post_boil_gravity)
    ELSE 0
utilization_tinseth(h, a) ==
    TinsethUtilization(hops[h].time, a.pre_boil_gravity, a.post_boil_gravity)

CallUtilizationTinseth(c, h, a) ==
    /\ Idle(c)
    /\ frames' = [frames EXCEPT ![c] =
          Returned([Called("utilization_tinseth", h, a) EXCEPT !.estimators = 1],
                   utilization_tinseth(h, a))]
    /\ ncalls' = ncalls + 1
    /\ UNCHANGED <<integration_time, store_graph, hops, pool>>

\* hop.ibu_tinseth(pre_boil_gravity, post_boil_gravity, post_boil_volume)
CallIbuTinseth(c, h, a) ==
    /\ Idle(c)
    /\ frames' = [frames EXCEPT ![c] =
          IF StageGate(h)
          THEN Finished([Called("ibu_tinseth", h, a) EXCEPT !.estimators = 1],
                        Ibu(utilization_tinseth(h, a), hops[h].aa, hops[h].g,
                            a.post_boil_volume))
          ELSE Returned(Called("ibu_tinseth", h, a), 0)]
    /\ ncalls' = ncalls + 1
    /\ UNCHANGED <<integration_time, store_graph, hops, pool>>

\* if t >= util_time
ExitTestStrict(t, util_time) == t > util_time
ExitTest(t, util_time) == t >= util_time

\* Lines 102-105: the first time t reaches util_time, the temperature is
\* kept and util_time is extended by the forced cooling's duration.
ExtendedForgettingFlag(f, temp_post_whirlpool, duration) ==
    [f EXCEPT !.temp_post_whirlpool = temp_post_whirlpool,
              !.util_time = @ + duration, !.extensions = @ + 1]
ExtendedDoubly(f, temp_post_whirlpool, duration) ==
    [f EXCEPT !.whirlpool_done = TRUE, !.temp_post_whirlpool = temp_post_whirlpool,
              !.util_time = @ + 2 * duration, !.extensions = @ + 1]
Extended(f, temp_post_whirlpool, duration) ==
    [f EXCEPT !.whirlpool_done = TRUE, !.temp_post_whirlpool = temp_post_whirlpool,
              !.util_time = @ + duration, !.extensions = @ + 1]

\* Lines 101-107 when the loop goes on: the frame, or the exception of
\* cool_time.
AtBoundary(f) ==
    IF ExitTest(f.t, f.util_time)
    THEN LET temp_post_whirlpool == kelvin_to_celsius(f.temp_k)
             duration == cool_time(f.args.temp_approach, f.args.temp_target,
                                   f.args.cooling_coefficient, temp_post_whirlpool)
         IN  IF duration.err # NoError
             THEN Raised([f EXCEPT !.whirlpool_done = TRUE,
                                   !.temp_post_whirlpool = temp_post_whirlpool],
                         duration.err)
             ELSE Extended(f, temp_post_whirlpool, duration.val)
    ELSE f

\* Lines 108-130: the branch of this step, and the gravity and the
\* temperature it leaves.
BranchWithoutBoil(f, time) ==
    IF f.t < (time + f.args.whirlpool_time) * TimeScale THEN "whirlpool" ELSE "cooling"
BranchWhirlpoolFirst(f, time) ==
    IF f.t < f.args.whirlpool_time * TimeScale THEN "whirlpool"
    ELSE IF f.t < time * TimeScale THEN "boil"
    ELSE "cooling"
BranchWhirlpoolInclusive(f, time) ==
    IF f.t < time * TimeScale THEN "boil"
    ELSE IF f.t <= (time + f.args.whirlpool_time) * TimeScale THEN "whirlpool"
    ELSE "cooling"
Branch(f, time) ==
    IF f.t < time * TimeScale THEN "boil"
    ELSE IF f.t < (time + f.args.whirlpool_time) * TimeScale THEN "whirlpool"
    ELSE "cooling"

StepGravity(f, time) ==
    IF Branch(f, time) = "boil"
    THEN BoilGravity(f.k_extract, f.pre_boil_volume, f.boil_off_rate, f.add_time, f.t)
    ELSE f.gravity

StepTempK(f, time) ==
    CASE Branch(f, time) = "boil" -> f.temp_k
      [] Branch(f, time) = "whirlpool" ->
            WhirlpoolTempK(f.args.surface_area, f.opening_area, f.args.post_boil_volume,
                           f.t - time * TimeScale)
      [] OTHER ->
            ForcedTempK(f.temp_post_whirlpool, f.args.temp_approach,
                        f.args.cooling_coefficient,
                        f.t - (f.args.whirlpool_time + time) * TimeScale)

\* combined_value = dU * degree_of_utilization
CombinedValue(gravity, temp_k, t) == Div(dU(gravity, t) * DegreeOfUtilization(temp_k, t), Scale)

\* u_total += combined_value * self.integration_time
AccumulatedIfGraph(u_total, combined_value, dt) ==
    IF store_graph THEN u_total + Div(combined_value * dt, TimeScale) ELSE u_total
Accumulated(u_total, combined_value, dt) == u_total + Div(combined_value * dt, TimeScale)

\* Lines 108-141: one integration step.
IntegratedRebasing(f, time) ==
    LET gravity == StepGravity(f, time)
        temp_k == StepTempK(f, time)
        since == IF Branch(f, time) = "boil" THEN f.t ELSE f.t - time * TimeScale
    IN  IF Branch(f, time) = "cooling" /\ f.temp_post_whirlpool = Unbound
        THEN Raised(f, UnboundLocalError)
        ELSE [f EXCEPT !.gravity = gravity, !.temp_k = temp_k,
                       !.u_total = Accumulated(@, CombinedValue(gravity, temp_k, since),
                                               integration_time),
                       !.t = @ + integration_time,
                       !.nsteps = @ + 1, !.branch = Branch(f, time)]
Integrated(f, time) ==
    LET gravity == StepGravity(f, time)
        temp_k == StepTempK(f, time)
    IN  IF Branch(f, time) = "cooling" /\ f.temp_post_whirlpool = Unbound
        THEN Raised(f, UnboundLocalError)
        ELSE [f EXCEPT !.gravity = gravity, !.temp_k = temp_k,
                       !.u_total = Accumulated(@, CombinedValue(gravity, temp_k, f.t),
                                               integration_time),
                       !.t = @ + integration_time,
                       !.nsteps = @ + 1, !.branch = Branch(f, time)]

\* Lines 137-140: the sample of the step that took f to g.
SampledAtElapsed(graph, f, g) ==
    [graph EXCEPT !.time = Append(@, f.t),
                  !.temperature = Append(@, kelvin_to_celsius(g.temp_k)),
                  !.utilization = Append(@, CombinedValue(g.gravity, g.temp_k, f.t))]
Sampled(graph, f, g) ==
    [graph EXCEPT !.time = Append(@, f.add_time * TimeScale + f.t),
                  !.temperature = Append(@, kelvin_to_celsius(g.temp_k)),
                  !.utilization = Append(@, CombinedValue(g.gravity, g.temp_k, f.t))]

\* if t >= util_time: ... else: break
BreakBeforeExtension(f) == ExitTest(f.t, f.util_time)
Break(f) == ExitTest(f.t, f.util_time) /\ f.whirlpool_done

\* Lines 101-141: the frame after one iteration that does not break.
SteppedUnlessDone(f, time) ==
    LET b == AtBoundary(f)
    IN  IF b.pc = "loop" /\ ~ExitTest(b.t, b.util_time) THEN Integrated(b, time) ELSE b
Stepped(f, time) ==
    LET b == AtBoundary(f)
    IN  IF b.pc = "loop" THEN Integrated(b, time) ELSE b

\* The graph after the iteration that took f to g.
GraphStepped(graph, f, g) ==
    IF store_graph /\ g.pc = "loop" THEN Sampled(graph, AtBoundary(f), g) ELSE graph

\* One iteration of the while loop that does not leave it by break.
Iterate(c) ==
    LET f == frames[c]
        h == f.self
        g == Stepped(f, hops[h].time)
    IN  /\ Running(c)
        /\ ~Break(f)
        /\ frames' = [frames EXCEPT ![c] = g]
        /\ hops' = SelfGraph(h, GraphStepped(hops[h].graph, f, g))
        /\ UNCHANGED <<integration_time, store_graph, pool, ncalls>>

\* self.graph["ibu"] = [u if u is None else self._ibu(u, post_boil_volume) ...]
WithIbuOfSteps(graph, hop, post_boil_volume) ==
    [graph EXCEPT !.has_ibu = TRUE,
                  !.ibu = [i \in 1..(Len(graph.utilization) - 1) |->
                             Ibu(graph.utilization[i + 1], hop.aa, hop.g,
                                 post_boil_volume).val]]
WithIbu(graph, hop, post_boil_volume) ==
    [graph EXCEPT !.has_ibu = TRUE,
                  !.ibu = [i \in DOMAIN graph.utilization |->
                             IF graph.utilization[i] = None THEN None
                             ELSE Ibu(graph.utilization[i], hop.aa, hop.g,
                                      post_boil_volume).val]]

\* Lines 142-143: the graph the call leaves.
GraphLeftAlways(graph, hop, f) == WithIbu(graph, hop, f.args.post_boil_volume)
GraphLeft(graph, hop, f) ==
    IF store_graph THEN WithIbu(graph, hop, f.args.post_boil_volume) ELSE graph

\* Line 144, and for ibu line 218 after it: the frame the call leaves.
Left(f, hop) ==
    IF f.method = "ibu"
    THEN Finished(f, Ibu(f.u_total, hop.aa, hop.g, f.args.post_boil_volume))
    ELSE Returned(f, f.u_total)

\* The break of line 107 and lines 142-144; for ibu, line 218 after them.
Return(c) ==
    LET f == frames[c]
        h == f.self
    IN  /\ Running(c)
        /\ Break(f)
        /\ hops' = SelfGraph(h, GraphLeft(hops[h].graph, hops[h], f))
        /\ frames' = [frames EXCEPT ![c] = Left(f, hops[h])]
        /\ UNCHANGED <<integration_time, store_graph, pool, ncalls>>

\* The call run from frame f to its end with nothing else in between: the
\* frame and the graph it leaves.
RECURSIVE RunAlone(_, _, _)
RunAlone(f, graph, hop) ==
    IF f.pc # "loop" THEN [frame |-> f, graph |-> graph]
    ELSE IF Break(f) THEN [frame |-> Left(f, hop), graph |-> GraphLeft(graph, hop, f)]
    ELSE LET g == Stepped(f, hop.time)
         IN  RunAlone(g, GraphStepped(graph, f, g), hop)

\* hop.utilization_mibu / hop.ibu evaluated alone on hop h with arguments a.
EvaluatedAlone(method, h, a) ==
    RunAlone(Entered([Called(method, h, a) EXCEPT !.overlapped = FALSE], h, a),
             GraphAtEntry(h), hops[h])

\* The caller takes the value returned, or handles the exception, and goes on.
Resume(c) ==
    /\ frames[c].pc \in {"returned", "raised"}
    /\ ~(frames[c].pc = "returned" /\ frames[c].caller = "Recipe.ibu")
    /\ frames' = [frames EXCEPT ![c] = IdleFrame]
    /\ UNCHANGED <<integration_time, store_graph, hops, pool, ncalls>>

\* The minutes the caller passes to calc.cooling_coefficient.
CoolingMinutes == {0, 2, 4}

Next ==
    \/ \E v \in IntegrationTimes : SetIntegrationTime(v)
    \/ \E b \in BOOLEAN : SetStoreGraph(b)
    \/ \E h \in HopIds : ResetGraph(h)
    \/ \E c \in Threads, a \in pool, m \in CoolingMinutes : CallCoolingCoefficient(c, a, m)
    \/ \E c \in Threads, a \in pool : CallCoolTime(c, a)
    \/ \E c \in Threads, h \in HopIds, a \in pool : CallUtilizationMibu(c, h, a)
    \/ \E c \in Threads, h \in HopIds, a \in pool : CallIbu(c, h, a)
    \/ \E c \in Threads, h \in HopIds, a \in pool : CallUtilizationTinseth(c, h, a)
    \/ \E c \in Threads, h \in HopIds, a \in pool : CallIbuTinseth(c, h, a)
    \/ \E c \in Threads : Iterate(c)
    \/ \E c \in Threads : Return(c)
    \/ \E c \in Threads : Resume(c)

Spec == Init /\ [][Next]_vars

\* ---------------------------------------------------------- recipe.py
\* A brewhouse and a recipe with two hops (the Hop objects 1 and 2).
TheBrewhouse ==
    [boil_off_rate |-> 1400, temp_approach |-> 1000, temp_target |-> 1900,
     cool_time_boil_to_target |-> 3]
TheRecipe ==
    [brewhouse |-> TheBrewhouse, hops |-> <<1, 2>>, boil_time |-> MaxHopTime + 1,
     post_boil_volume |-> 20, pitch_temp |-> 2000,
     \* what post_boil_gravity() returns for the recipe's extracts
     post_boil_gravity |-> 10650]

\* Recipe.pre_boil_volume, in millilitres:
\* post_boil_volume / ((1 - brewhouse.boil_off_rate) ** (boil_time / 60.0))
RecipePreBoilVolume(recipe) ==
    Div(recipe.post_boil_volume * 1000 * Scale,
        Pow(Scale - recipe.brewhouse.boil_off_rate, recipe.boil_time, 60))

\* Recipe.bg: (post_boil_gravity() - 1) * post_boil_volume / pre_boil_volume() + 1
bg(recipe) ==
    Scale + Div((recipe.post_boil_gravity - Scale) * recipe.post_boil_volume * 1000,
                RecipePreBoilVolume(recipe))

\* Brewhouse.cooling_coefficient
BrewhouseCoolingCoefficient(brewhouse) ==
    cooling_coefficient(brewhouse.temp_approach, brewhouse.temp_target,
                        brewhouse.cool_time_boil_to_target, BoilingC).val

\* The arguments Recipe.ibu passes to x.ibu; whirlpool_time, surface_area and
\* opening_area are left to their defaults.
RecipeArgsToBrewhouseTarget(recipe) ==
    [Args(bg(recipe), recipe.post_boil_gravity, recipe.brewhouse.temp_approach,
          recipe.brewhouse.temp_target, BrewhouseCoolingCoefficient(recipe.brewhouse),
          recipe.post_boil_volume, 0)
     EXCEPT !.boil_time = recipe.boil_time]
RecipeArgs(recipe) ==
    [Args(bg(recipe), recipe.post_boil_gravity, recipe.brewhouse.temp_approach,
          recipe.pitch_temp, BrewhouseCoolingCoefficient(recipe.brewhouse),
          recipe.post_boil_volume, 0)
     EXCEPT !.boil_time = recipe.boil_time]

\* x.ibu(...) called by Recipe.ibu from frame f (idle, or holding the call
\* on the hop before): the frame of the call.
InvokedByRecipe(f, h, a) ==
    LET called == [Called("ibu", h, a) EXCEPT
                      !.caller = "Recipe.ibu",
                      !.invoked = Append(f.invoked, [hop |-> h, args |-> a]),
                      !.results = IF f.pc = "returned" THEN Append(f.results, f.result)
                                  ELSE f.results]
    IN  IF StageGate(h) THEN Entered(called, h, a) ELSE Returned(called, 0)

\* recipe.ibu(): the list comprehension calls ibu on the first hop.
CallRecipeIbu(c) ==
    LET h == TheRecipe.hops[1]
    IN  /\ Idle(c)
        /\ frames' = Entering(c, h, InvokedByRecipe(frames[c], h, RecipeArgs(TheRecipe)))
        /\ hops' = IF StageGate(h) THEN SelfGraph(h, GraphAtEntry(h)) ELSE hops
        /\ ncalls' = ncalls + 1
        /\ UNCHANGED <<integration_time, store_graph, pool>>

\* In a call of Recipe.ibu, x.ibu has returned.
InRecipe(c) ==
    /\ frames[c].caller = "Recipe.ibu" /\ frames[c].method = "ibu"
    /\ frames[c].pc = "returned"

\* The list comprehension goes on to the next hop.
RecipeNext(c) ==
    /\ InRecipe(c)
    /\ Len(frames[c].invoked) < Len(TheRecipe.hops)
    /\ LET h == TheRecipe.hops[Len(frames[c].invoked) + 1]
       IN  /\ frames' = Entering(c, h, InvokedByRecipe(frames[c], h, RecipeArgs(TheRecipe)))
           /\ hops' = IF StageGate(h) THEN SelfGraph(h, GraphAtEntry(h)) ELSE hops
    /\ UNCHANGED <<integration_time, store_graph, pool, ncalls>>

RECURSIVE SumSeq(_)
\* sum([...])
SumSeq(values) == IF values = <<>> THEN 0 ELSE Head(values) + SumSeq(Tail(values))

\* The list is complete: Recipe.ibu returns its sum.
RecipeReturn(c) ==
    /\ InRecipe(c)
    /\ Len(frames[c].invoked) = Len(TheRecipe.hops)
    /\ frames' = [frames EXCEPT ![c] =
          [IdleFrame EXCEPT !.method = "Recipe.ibu", !.pc = "returned",
                            !.dt = frames[c].dt, !.sg = frames[c].sg,
                            !.invoked = frames[c].invoked,
                            !.results = Append(frames[c].results, frames[c].result),
                            !.result = SumSeq(Append(frames[c].results, frames[c].result))]]
    /\ UNCHANGED <<integration_time, store_graph, hops, pool, ncalls>>

\* The hops of a recipe: a late addition, and a second addition like it, at
\* flameout, or to the mash.
MashHop == [stage |-> "MASH", time |-> 1, g |-> 20, aa |-> 100]
InitRecipe ==
    /\ integration_time \in IntegrationTimes
    /\ store_graph \in BOOLEAN
    /\ \E first \in {[stage |-> "BOIL", time |-> MaxHopTime, g |-> 20, aa |-> 100],
                      [stage |-> "BOIL", time |-> MaxHopTime - 1, g |-> 20, aa |-> 100]},
          other \in {[stage |-> "BOIL", time |-> MaxHopTime - 1, g |-> 20, aa |-> 100],
                      [stage |-> "BOIL", time |-> 0, g |-> 20, aa |-> 100], MashHop} :
          hops = [h \in {1, 2} |-> NewHop(IF h = 1 THEN first ELSE other)]
    /\ frames = [c \in {1} |-> IdleFrame]
    /\ pool = {RecipeArgs(TheRecipe)}
    /\ ncalls = 0

\* The program evaluates the recipe, and its hops one by one as the test of
\* Recipe.ibu does.
NextRecipe ==
    \/ \E c \in Threads : CallRecipeIbu(c)
    \/ \E c \in Threads : RecipeNext(c)
    \/ \E c \in Threads : RecipeReturn(c)
    \/ \E c \in Threads, h \in HopIds, a \in pool : CallIbu(c, h, a)
    \/ \E c \in Threads : Iterate(c)
    \/ \E c \in Threads : Return(c)
    \/ \E c \in Threads : Resume(c)

SpecRecipe == InitRecipe /\ [][NextRecipe]_vars

\* ------------------------------------------------- long boil additions
\* The brew of the tests: a boil of 60 minutes, cooled from boiling to 20
\* degrees in 40 minutes, no whirlpool; and its long additions of 50 g and
\* of 250 g of hops of 10 % alpha acid, integrated in steps of a minute.
LongBoilArgs ==
    [Args(10550, 10650, 700, 2000, Coefficient(40), 20, 0) EXCEPT !.boil_time = 60]
LongHops == [stage : {"BOIL"}, time : {45, 60}, g : {50, 250}, aa : {100}]

InitLongBoil ==
    /\ integration_time = 1000
    /\ store_graph = FALSE
    /\ \E fields \in LongHops : hops = [h \in {1} |-> NewHop(fields)]
    /\ frames = [c \in {1, 2} |-> IdleFrame]
    /\ pool = {LongBoilArgs}
    /\ ncalls = 0

\* One thread evaluates the addition with ibu, the other with ibu_tinseth.
NextLongBoil ==
    \/ \E h \in HopIds, a \in pool : CallIbu(1, h, a)
    \/ \E h \in HopIds, a \in pool : CallIbuTinseth(2, h, a)
    \/ \E c \in Threads : Iterate(c)
    \/ \E c \in Threads : Return(c)

SpecLongBoil == InitLongBoil /\ [][NextLongBoil]_vars

\* Two threads of the calling program and two hop additions of one brew: a
\* late addition, and a second one like it or at flameout.
LateHop == [stage |-> "BOIL", time |-> MaxHopTime - 1, g |-> 20, aa |-> 100]
FlameoutHop == [stage |-> "BOIL", time |-> 0, g |-> 20, aa |-> 100]
ThreadArgs == Args(10550, 10650, 700, 2000, Coefficient(1), 20, 1)

InitThreads ==
    /\ integration_time = 750
    /\ store_graph = FALSE
    /\ \E other \in {LateHop, FlameoutHop} :
          hops = [h \in {1, 2} |-> NewHop(IF h = 1 THEN LateHop ELSE other)]
    /\ frames = [c \in {1, 2} |-> IdleFrame]
    /\ pool = {ThreadArgs}
    /\ ncalls = 0

\* Each thread evaluates a hop addition with the mIBU method.
NextThreads ==
    \/ \E v \in IntegrationTimes : SetIntegrationTime(v)
    \/ \E b \in BOOLEAN : SetStoreGraph(b)
    \/ \E h \in HopIds : ResetGraph(h)
    \/ \E c \in Threads, h \in HopIds, a \in pool : CallUtilizationMibu(c, h, a)
    \/ \E c \in Threads, h \in HopIds, a \in pool : CallIbu(c, h, a)
    \/ \E c \in Threads : Iterate(c)
    \/ \E c \in Threads : Return(c)

SpecThreads == InitThreads /\ [][NextThreads]_vars

\* ============================================================== claims
\* What a frame says about the call it holds.
Hopped(f) == f.method \in {"utilization_mibu", "ibu", "utilization_tinseth", "ibu_tinseth"}
Integrating(f) == f.method \in {"utilization_mibu", "ibu"}
StageOf(f) == IF f.self \in HopIds THEN hops[f.self].stage ELSE "none"
TargetNotAbove(f) == f.args.temp_target <= f.args.temp_approach
\* The preconditions on the brew other than the one on the temperatures.
BrewValid(a) ==
    a.pre_boil_gravity > Scale /\ a.post_boil_gravity > Scale /\ a.post_boil_volume > 0

\* C1: on a hop whose stage is not BOIL, ibu and ibu_tinseth return exactly
\* 0: the call returns at once, raises nothing, invokes no estimator, runs
\* no integration step and leaves every graph as it was.
C1_StageGateReturnsZero ==
    [][\A c \in Threads :
         (/\ frames[c].pc = "idle" /\ frames'[c].pc # "idle"
          /\ frames'[c].method \in {"ibu", "ibu_tinseth"}
          /\ hops[frames'[c].self].stage # "BOIL")
         => /\ frames'[c].pc = "returned" /\ frames'[c].result = 0
            /\ frames'[c].err = NoError
            /\ frames'[c].estimators = 0 /\ frames'[c].nsteps = 0
            /\ hops' = hops]_vars

\* A mash hop of 20 g for which ibu has returned 0, with graphs being stored.
C1_Witness ==
    \E c \in Threads :
        /\ frames[c].method = "ibu" /\ frames[c].pc = "returned"
        /\ StageOf(frames[c]) = "MASH" /\ hops[frames[c].self].g > 0
        /\ frames[c].sg /\ frames[c].args \in ValidArgs
        /\ frames[c].result = 0 /\ frames[c].estimators = 0

\* C2 as stated: on a hop whose stage is not BOIL the estimators
\* utilization_mibu and utilization_tinseth return exactly 0.
C2_EstimatorsReturnZeroOffBoil ==
    \A c \in Threads :
        (/\ frames[c].method \in {"utilization_mibu", "utilization_tinseth"}
         /\ frames[c].pc = "returned" /\ StageOf(frames[c]) # "BOIL")
        => frames[c].result = 0

\* C2 amended: the estimators do not look at the stage. On a hop whose
\* stage is not BOIL, utilization_mibu returns a utilization above 0 for
\* every brew it returns for, and utilization_tinseth returns one above 0
\* exactly when the hop's time is above 0.
C2_EstimatorsIgnoreStage ==
    \A c \in Threads :
        (frames[c].pc = "returned" /\ Hopped(frames[c]) /\ StageOf(frames[c]) # "BOIL")
        => /\ frames[c].method = "utilization_mibu" => frames[c].result > 0
           /\ frames[c].method = "utilization_tinseth"
                => (frames[c].result > 0) = (hops[frames[c].self].time > 0)

\* utilization_mibu has returned a positive utilization for a ferment hop.
C2_Witness ==
    \E c \in Threads :
        /\ frames[c].method = "utilization_mibu" /\ frames[c].pc = "returned"
        /\ StageOf(frames[c]) = "FERMENT" /\ frames[c].result > 0
        /\ frames[c].nsteps > 0

\* C3 as stated: when utilization_mibu, or ibu on a BOIL hop, is called with
\* temp_target <= temp_approach, the error is raised before any integration
\* step: no step has run, no utilization is accumulated, and the graph holds
\* no sample of a step.
C3_TargetErrorBeforeAnyStep ==
    [][\A c \in Threads :
         (/\ frames[c].pc # "raised" /\ frames'[c].pc = "raised"
          /\ Integrating(frames'[c]) /\ frames'[c].err = TargetError)
         => /\ frames'[c].nsteps = 0 /\ frames'[c].u_total = 0
            /\ Len(hops'[frames'[c].self].graph.utilization) <= 1
            /\ hops' = hops]_vars

\* The classified errors of the validation of the temperatures.
C4_EndsInTargetError(f) == f.pc = "raised" /\ f.err = TargetError

C5_InvalidBrewIsClassified ==
    \A c \in Threads :
        LET f == frames[c]
        IN  (/\ Integrating(f)
             /\ (f.method = "ibu" => StageOf(f) = "BOIL")
             /\ (~BrewValid(f.args) \/ (f.method = "ibu" /\ hops[f.self].g <= 0)))
            => /\ f.pc # "returned" /\ f.nsteps = 0
               /\ f.pc = "raised" => f.err \notin {ZeroDivisionError, MathDomainError, UnboundLocalError}

\* C6: during a run of utilization_mibu the accumulated utilization u_total
\* starts at 0 and never decreases from one integration step to the next,
\* and the utilization returned is not negative.
C6_UtilizationNeverDecreases ==
    [][\A c \in Threads :
         /\ (frames[c].pc = "idle" /\ frames'[c].pc = "loop") => frames'[c].u_total = 0
         /\ frames[c].pc = "loop" => frames'[c].u_total >= frames[c].u_total
         /\ (frames[c].pc = "loop" /\ frames'[c].pc = "returned"
             /\ frames'[c].method = "utilization_mibu")
            => frames'[c].result >= 0 /\ frames'[c].result = frames[c].u_total]_vars

\* utilization_mibu has returned a utilization above 0 after steps in the
\* boil, in the whirlpool and in the forced cooling.
C6_Witness ==
    \E c \in Threads :
        /\ frames[c].method = "utilization_mibu" /\ frames[c].pc = "returned"
        /\ frames[c].result > 0 /\ frames[c].nsteps >= 3
        /\ hops[frames[c].self].time > 0 /\ frames[c].args.whirlpool_time > 0
        /\ frames[c].branch = "cooling"

\* totalDuration = hop time + whirlpool_time + cool_time(approach, target,
\* k, temperature at whirlpool end), for a frame that has passed the end of
\* the whirlpool.
C7_TotalDuration(f) ==
    (hops[f.self].time + f.args.whirlpool_time) * TimeScale
    + cool_time(f.args.temp_approach, f.args.temp_target, f.args.cooling_coefficient,
                f.temp_post_whirlpool).val
\* The steps up to the end of the whirlpool.
C7_StepsToBoundary(f) ==
    CeilDiv((hops[f.self].time + f.args.whirlpool_time) * TimeScale, f.dt)
C7_Preconditions(f) ==
    /\ f.method = "utilization_mibu" /\ f.pc \in {"loop", "returned"}
    /\ f.dt > 0 /\ f.args.cooling_coefficient > 0 /\ ~TargetNotAbove(f)

\* C7 as stated: for integration_time > 0, cooling_coefficient > 0 and
\* temp_target > temp_approach, the steps utilization_mibu executes are at
\* most totalDuration / integration_time, rounded up.
C7_StepsWithinTotalDuration ==
    \A c \in Threads :
        (C7_Preconditions(frames[c]) /\ frames[c].pc = "returned")
        => frames[c].nsteps <= CeilDiv(C7_TotalDuration(frames[c]), frames[c].dt)

\* C7 amended: under the same preconditions the call ends, and with t
\* accumulated exactly its steps are at most the larger of totalDuration /
\* integration_time rounded up and one more than the steps up to the end of
\* the whirlpool: the step at which the end of the whirlpool is found always
\* runs. While the call has not left the loop it has steps left or is at its
\* break.
C7_StepsWithinBoundaryStep ==
    \A c \in Threads :
        LET f == frames[c]
        IN  C7_Preconditions(f)
            => IF ~f.whirlpool_done
               THEN f.pc = "loop" /\ f.nsteps <= C7_StepsToBoundary(f)
                    /\ f.t = f.nsteps * f.dt
               ELSE LET bound == Max(CeilDiv(C7_TotalDuration(f), f.dt),
                                     C7_StepsToBoundary(f) + 1)
                    IN  /\ f.nsteps <= bound
                        /\ f.t = f.nsteps * f.dt
                        /\ f.util_time = C7_TotalDuration(f)
                        /\ f.pc = "loop" => (f.nsteps < bound \/ Break(f))
                        /\ f.pc = "returned" => f.nsteps = bound

\* utilization_mibu has returned for a hop added at flameout with no
\* whirlpool and nothing to cool: one step has run, for a total duration 0.
C7_Witness ==
    \E c \in Threads :
        /\ C7_Preconditions(frames[c]) /\ frames[c].pc = "returned"
        /\ C7_TotalDuration(frames[c]) = 0 /\ frames[c].nsteps = 1

\* Two frames hold finished calls of utilization_mibu on hops with equal
\* fields, with equal arguments.
SameCall(f, g) ==
    /\ f.method = "utilization_mibu" /\ g.method = "utilization_mibu"
    /\ f.pc = "returned" /\ g.pc = "returned"
    /\ [hops[f.self] EXCEPT !.graph = EmptyGraph] = [hops[g.self] EXCEPT !.graph = EmptyGraph]
    /\ f.args = g.args

\* C8: the value utilization_mibu returns is the same with store_graph on
\* and off: for equal hop fields, arguments and integration_time, the run
\* that stores the graph and the run that does not execute the same steps
\* and return the same utilization.
C8_GraphDoesNotChangeResult ==
    \A c, d \in Threads :
        (SameCall(frames[c], frames[d]) /\ frames[c].dt = frames[d].dt
         /\ frames[c].sg /\ ~frames[d].sg)
        => [frames[c] EXCEPT !.self = 0, !.sg = FALSE]
           = [frames[d] EXCEPT !.self = 0, !.sg = FALSE]

\* The same call has returned once with the graph stored and once without,
\* and the stored graph holds a sample for every step.
C8_Witness ==
    \E c, d \in Threads :
        /\ SameCall(frames[c], frames[d]) /\ frames[c].dt = frames[d].dt
        /\ frames[c].sg /\ ~frames[d].sg
        /\ frames[c].self # frames[d].self
        /\ frames[c].result > 0 /\ frames[d].result = frames[c].result
        /\ Len(hops[frames[c].self].graph.utilization) = frames[c].nsteps + 1
        /\ hops[frames[d].self].graph = EmptyGraph

\* C9 as stated: two calls of utilization_mibu on hops with equal fields
\* and equal arguments return equal results, whatever happens between them.
C9_EqualCallsEqualResults ==
    \A c, d \in Threads :
        SameCall(frames[c], frames[d]) => frames[c].result = frames[d].result

\* C9 amended: the step size and the flag are attributes of the Hop class,
\* read by every call. Two calls of utilization_mibu on hops with equal
\* fields and equal arguments return equal results when Hop.integration_time
\* has the same value during both, whatever else happens between them: a
\* change of Hop.store_graph, calls on this or another hop, graphs stored or
\* reset.
C9_EqualCallsEqualResultsAtEqualStep ==
    \A c, d \in Threads :
        (SameCall(frames[c], frames[d]) /\ frames[c].dt = frames[d].dt)
        => frames[c].result = frames[d].result

\* The same call has returned twice on one hop at one step size, the second
\* time over the graph the first left while Hop.store_graph was on.
C9_Witness ==
    \E c, d \in Threads :
        /\ c # d /\ SameCall(frames[c], frames[d]) /\ frames[c].dt = frames[d].dt
        /\ frames[c].self = frames[d].self
        /\ frames[c].sg /\ ~frames[d].sg /\ ~store_graph
        /\ hops[frames[c].self].graph.has_ibu
        /\ frames[c].result = frames[d].result /\ frames[c].result > 0

\* C10: evaluations of distinct hops are independent. When a call of
\* utilization_mibu or ibu returns on a hop no other thread has called on,
\* however its steps were interleaved with the steps of the calls on other
\* hops, the frame it leaves and, with store_graph on, the graph it leaves
\* are those of the same call run alone from entry to return; with
\* store_graph off the graph stays as it was.
C10_DistinctHopsIndependent ==
    [][\A c \in Threads :
         (/\ frames[c].pc = "loop" /\ frames'[c].pc = "returned"
          /\ \A d \in Threads \ {c} : frames[d].self # frames[c].self)
         => LET f == frames[c]
                alone == EvaluatedAlone(f.method, f.self, f.args)
            IN  /\ frames'[c] = alone.frame
                /\ hops'[f.self].graph = alone.graph]_vars

\* Two calls on different hops are both past their first step, with graphs
\* being stored, and one of them has returned while the other is in its loop.
C10_Witness ==
    \E c, d \in Threads :
        /\ frames[c].pc = "returned" /\ frames[d].pc = "loop"
        /\ frames[c].self # frames[d].self
        /\ frames[c].sg /\ frames[d].sg
        /\ frames[d].nsteps > 0 /\ frames[d].nsteps < frames[c].nsteps
        /\ hops[frames[c].self].graph.has_ibu
        /\ Len(hops[frames[d].self].graph.utilization) = frames[d].nsteps + 1

\* A step in which thread c's call of utilization_mibu returns with
\* store_graph on.
C11_ReturnsWithGraph(c) ==
    /\ frames[c].pc = "loop" /\ frames'[c].pc = "returned"
    /\ frames[c].method = "utilization_mibu" /\ frames[c].sg
\* A step of another thread's call while thread c holds a call of
\* utilization_mibu that has returned with store_graph on.
C11_OtherActs(c) ==
    /\ frames[c].pc = "returned" /\ frames[c].method = "utilization_mibu" /\ frames[c].sg
    /\ frames'[c] = frames[c] /\ frames' # frames

\* C11 as stated: each invocation of utilization_mibu with store_graph on
\* owns its trace, also on the same Hop object: at its return the trace
\* holds exactly its own samples, and no step of another invocation clears
\* or alters it afterwards.
C11_EachInvocationOwnsItsTrace ==
    [][\A c \in Threads :
         /\ C11_ReturnsWithGraph(c)
            => hops'[frames[c].self].graph
               = EvaluatedAlone(frames[c].method, frames[c].self, frames[c].args).graph
         /\ C11_OtherActs(c)
            => hops'[frames[c].self].graph = hops[frames[c].self].graph]_vars

\* C11 amended: the trace is an attribute of the Hop object, one per object.
\* An invocation with store_graph on during which no other invocation runs
\* on the same Hop leaves in hop.graph exactly its own samples, and no step
\* of an invocation on another Hop clears or alters them.
C11_EachHopOwnsItsTrace ==
    [][\A c \in Threads :
         /\ (C11_ReturnsWithGraph(c) /\ ~frames[c].overlapped)
            => hops'[frames[c].self].graph
               = EvaluatedAlone(frames[c].method, frames[c].self, frames[c].args).graph
         /\ (C11_OtherActs(c)
             /\ \A d \in Threads \ {c} :
                   frames'[d] # frames[d] => frames'[d].self # frames[c].self)
            => hops'[frames[c].self].graph = hops[frames[c].self].graph]_vars

\* Two invocations with store_graph on have followed one another on the same
\* Hop, and its graph holds the samples of the steps of one invocation.
C11_Witness ==
    \E c, d \in Threads :
        /\ c # d /\ frames[c].self = frames[d].self
        /\ frames[c].method = "utilization_mibu" /\ frames[d].method = "utilization_mibu"
        /\ frames[c].pc = "returned" /\ frames[d].pc = "returned"
        /\ frames[c].sg /\ frames[d].sg
        /\ ~frames[c].overlapped /\ ~frames[d].overlapped
        /\ hops[frames[c].self].graph.has_ibu
        /\ Len(hops[frames[c].self].graph.utilization) = frames[c].nsteps + 1

\* utilization * aa * 1000 * g / post_boil_volume, to the rounding of the
\* quotient: bitterness in thousandths of an IBU.
C12_IsBitternessOf(ibu, utilization, hop, post_boil_volume) ==
    2 * Abs(ibu * post_boil_volume - Div(utilization * hop.aa, 1000) * hop.g)
        <= post_boil_volume
\* The bitterness ibu returns for the hop of frame f with its mass and its
\* alpha acid multiplied.
C12_IbuScaled(f, mass, alpha) ==
    RunAlone(Entered(Called("ibu", f.self, f.args), f.self, f.args), GraphAtEntry(f.self),
             [hops[f.self] EXCEPT !.g = mass * @, !.aa = alpha * @]).frame.result

\* C12: on a BOIL hop, ibu returns the utilization utilization_mibu returns
\* for the same arguments times aa * 1000 * g / post_boil_volume, and
\* ibu_tinseth the utilization of utilization_tinseth times the same; the
\* bitterness is 0 when g = 0 or aa = 0, and doubles with g and with aa.
C12_IbuIsScaledUtilization ==
    [][\A c \in Threads :
         LET f == frames'[c]
             hop == hops[f.self]
         IN  (/\ frames[c].pc \in {"idle", "loop"} /\ f.pc = "returned"
              /\ f.method \in {"ibu", "ibu_tinseth"} /\ hop.stage = "BOIL")
             => /\ f.method = "ibu"
                   => /\ C12_IsBitternessOf(f.result,
                            EvaluatedAlone("utilization_mibu", f.self, f.args).frame.result,
                            hop, f.args.post_boil_volume)
                      /\ Abs(C12_IbuScaled(f, 2, 1) - 2 * f.result) <= 1
                      /\ Abs(C12_IbuScaled(f, 1, 2) - 2 * f.result) <= 1
                /\ f.method = "ibu_tinseth"
                   => C12_IsBitternessOf(f.result, utilization_tinseth(f.self, f.args),
                                         hop, f.args.post_boil_volume)
                /\ (hop.g = 0 \/ hop.aa = 0) => f.result = 0
                /\ (hop.g > 0 /\ hop.aa > 0 /\ f.method = "ibu") => f.result > 0]_vars

\* ibu has returned a bitterness above 0 for a BOIL hop of 20 g after steps
\* in the whirlpool.
C12_Witness ==
    \E c \in Threads :
        /\ frames[c].method = "ibu" /\ frames[c].pc = "returned"
        /\ StageOf(frames[c]) = "BOIL" /\ hops[frames[c].self].g = 20
        /\ frames[c].args.whirlpool_time > 0 /\ frames[c].result > 0
        /\ C12_IsBitternessOf(frames[c].result, frames[c].u_total, hops[frames[c].self],
                              frames[c].args.post_boil_volume)
\* ibu has returned 0 for a BOIL hop with no alpha acid, after its steps.
C12_WitnessNoAlpha ==
    \E c \in Threads :
        /\ frames[c].method = "ibu" /\ frames[c].pc = "returned"
        /\ hops[frames[c].self].aa = 0 /\ frames[c].u_total > 0 /\ frames[c].result = 0

\* The arguments the claim lists: the recipe's pre-boil gravity, post-boil
\* gravity, brewhouse approach temperature, pitch temperature, brewhouse
\* cooling coefficient, boil time and post-boil volume, whirlpool time 0.
C13_ExpectedArgs ==
    [pre_boil_gravity |-> bg(TheRecipe),
     post_boil_gravity |-> TheRecipe.post_boil_gravity,
     temp_approach |-> TheRecipe.brewhouse.temp_approach,
     temp_target |-> TheRecipe.pitch_temp,
     cooling_coefficient |-> BrewhouseCoolingCoefficient(TheRecipe.brewhouse),
     boil_time |-> TheRecipe.boil_time,
     post_boil_volume |-> TheRecipe.post_boil_volume,
     whirlpool_time |-> 0, surface_area |-> DefaultArea, opening_area |-> None]
\* What Hop.ibu returns for hop h with these arguments.
C13_IbuOf(h) ==
    IF hops[h].stage = "BOIL" THEN EvaluatedAlone("ibu", h, C13_ExpectedArgs).frame.result
    ELSE 0

\* C13: Recipe.ibu invokes Hop.ibu exactly once per hop of the recipe, in
\* the order of the list, each time with the recipe's arguments and the
\* whirlpool time left at 0, and returns the sum of what the calls
\* returned; a hop whose stage is not BOIL contributes 0.
C13_RecipeSumsItsHops ==
    [][\A c \in Threads :
         (frames[c].method = "ibu" /\ frames'[c].method = "Recipe.ibu")
         => LET f == frames'[c]
            IN  /\ f.pc = "returned"
                /\ [i \in DOMAIN f.invoked |-> f.invoked[i].hop] = TheRecipe.hops
                /\ \A i \in DOMAIN f.invoked : f.invoked[i].args = C13_ExpectedArgs
                /\ f.results = [i \in DOMAIN TheRecipe.hops |-> C13_IbuOf(TheRecipe.hops[i])]
                /\ f.result = C13_IbuOf(TheRecipe.hops[1]) + C13_IbuOf(TheRecipe.hops[2])]_vars

\* Recipe.ibu has returned the bitterness of its boil hop alone: its second
\* hop is a mash hop.
C13_Witness ==
    \E c \in Threads :
        /\ frames[c].method = "Recipe.ibu" /\ frames[c].pc = "returned"
        /\ Len(frames[c].invoked) = 2 /\ hops[2].stage = "MASH" /\ hops[2].g > 0
        /\ frames[c].results[1] > 0 /\ frames[c].results[2] = 0
        /\ frames[c].result = frames[c].results[1]

\* The call of frame f run alone with the geometry replaced: the frame it
\* leaves, but for the arguments it holds, and the graph.
C14_WithGeometry(f, surface_area, opening_area) ==
    LET a == [f.args EXCEPT !.surface_area = surface_area, !.opening_area = opening_area]
        alone == EvaluatedAlone(f.method, f.self, a)
    IN  [frame |-> [alone.frame EXCEPT !.args = f.args], graph |-> alone.graph]
\* A step in which thread c's call of utilization_mibu or ibu returns.
C14_Returns(c) ==
    /\ frames[c].pc = "loop" /\ frames'[c].pc = "returned" /\ Integrating(frames[c])

\* C14: a call of utilization_mibu / ibu with opening_area omitted leaves
\* the result, the steps and the graph of the same call with opening_area =
\* surface_area passed explicitly; so the call with the whole geometry
\* omitted leaves those of the call with surface_area = 900 and
\* opening_area = 900.
C14_OmittedGeometryIsDefault ==
    [][\A c \in Threads :
         (C14_Returns(c) /\ frames[c].args.opening_area = None)
         => LET explicit == C14_WithGeometry(frames[c], frames[c].args.surface_area,
                                             frames[c].args.surface_area)
            IN  /\ frames'[c] = explicit.frame
                /\ hops'[frames[c].self].graph = explicit.graph
                /\ frames[c].args.surface_area = DefaultArea
                   => explicit = C14_WithGeometry(frames[c], 900, 900)]_vars

\* A call with opening_area omitted and a surface_area other than the
\* default has returned after steps in the whirlpool, with the graph stored.
C14_Witness ==
    \E c \in Threads :
        /\ Integrating(frames[c]) /\ frames[c].pc = "returned"
        /\ frames[c].args.opening_area = None /\ frames[c].args.surface_area # DefaultArea
        /\ frames[c].args.whirlpool_time > 0 /\ frames[c].opening_area = frames[c].args.surface_area
        /\ frames[c].sg /\ hops[frames[c].self].graph.has_ibu

\* The geometries a kettle is given: surface_area and opening_area.
C15_Geometries == {<<DefaultArea, None>>, <<400, 100>>, <<1600, 400>>, <<400, None>>}
\* What a caller sees of a call: the value returned and the graph recorded.
C15_Observed(run) == [result |-> run.frame.result, graph |-> run.graph]

\* C15: with whirlpool_time = 0 the call ignores surface_area and
\* opening_area: a call of utilization_mibu returns the utilization and
\* records the graph of the same call with any other geometry.
C15_GeometryIgnoredWithoutWhirlpool ==
    [][\A c \in Threads :
         (/\ C14_Returns(c) /\ frames[c].method = "utilization_mibu"
          /\ frames[c].args.whirlpool_time = 0)
         => \A geometry \in C15_Geometries :
               C15_Observed(C14_WithGeometry(frames[c], geometry[1], geometry[2]))
               = [result |-> frames'[c].result, graph |-> hops'[frames[c].self].graph]]_vars

\* A call with no whirlpool, a surface_area of 400 and an opening_area of
\* 100 has returned after steps in the boil, with the graph stored.
C15_Witness ==
    \E c \in Threads :
        /\ frames[c].method = "utilization_mibu" /\ frames[c].pc = "returned"
        /\ frames[c].args.whirlpool_time = 0
        /\ frames[c].args.surface_area = 400 /\ frames[c].args.opening_area = 100
        /\ hops[frames[c].self].time > 0 /\ frames[c].result > 0
        /\ frames[c].sg /\ Len(hops[frames[c].self].graph.temperature) = frames[c].nsteps + 1

\* The cooling coefficients a brewhouse is given.
C16_Coefficients == {Coefficient(1), Coefficient(2), Coefficient(4)}
\* The utilization utilization_mibu returns for the hop and the arguments
\* of frame f with cooling_coefficient k.
C16_Utilization(f, k) ==
    EvaluatedAlone("utilization_mibu", f.self, [f.args EXCEPT !.cooling_coefficient = k])
        .frame.result

\* C16: for a fixed hop and otherwise fixed arguments, with temp_target >
\* temp_approach and the temperature at the end of the whirlpool above
\* temp_target, a larger cooling_coefficient never gives a larger
\* utilization: k1 <= k2 implies utilization(k1) >= utilization(k2).
C16_FasterCoolingNeverMoreUtilization ==
    [][\A c \in Threads :
         (/\ C14_Returns(c) /\ frames[c].method = "utilization_mibu"
          /\ ~TargetNotAbove(frames[c])
          /\ frames[c].temp_post_whirlpool > frames[c].args.temp_target)
         => \A k \in C16_Coefficients :
               /\ k >= frames[c].args.cooling_coefficient
                  => C16_Utilization(frames[c], k) <= frames'[c].result
               /\ k <= frames[c].args.cooling_coefficient
                  => C16_Utilization(frames[c], k) >= frames'[c].result]_vars

\* A call has returned after forced cooling from above the target, and the
\* same call with a larger cooling coefficient returns strictly less.
C16_Witness ==
    \E c \in Threads :
        /\ frames[c].method = "utilization_mibu" /\ frames[c].pc = "returned"
        /\ frames[c].dt = integration_time
        /\ frames[c].temp_post_whirlpool > frames[c].args.temp_target
        /\ frames[c].args.cooling_coefficient = Coefficient(4)
        /\ frames[c].args.whirlpool_time > 0
        /\ C16_Utilization(frames[c], Coefficient(2)) < frames[c].result

\* ibu and ibu_tinseth have returned for the same hop and the same brew, a
\* BOIL addition of at least 45 minutes with no whirlpool.
C18_BothReturned ==
    /\ frames[1].method = "ibu" /\ frames[1].pc = "returned"
    /\ frames[2].method = "ibu_tinseth" /\ frames[2].pc = "returned"
    /\ frames[1].self = frames[2].self /\ frames[1].args = frames[2].args
    /\ hops[frames[1].self].stage = "BOIL" /\ hops[frames[1].self].time >= 45
    /\ frames[1].args.whirlpool_time = 0
\* aa * 1000 * g / post_boil_volume: the bitterness per unit of utilization.
C18_Dose(f) ==
    Div(hops[f.self].aa * hops[f.self].g, f.args.post_boil_volume)

\* C18 as stated: for a BOIL addition of at least 45 minutes with no
\* whirlpool, the bitterness of ibu and of ibu_tinseth differ by less than
\* 5 IBU.
C18_WithinFiveIbu ==
    C18_BothReturned => Abs(frames[1].result - frames[2].result) < 5000

\* C18 amended: the two bitternesses differ by the difference of the two
\* utilizations times aa * 1000 * g / post_boil_volume, so that for the brew
\* of the tests and BOIL additions of 45 to 60 minutes with no whirlpool they
\* differ by less than 5 IBU when aa * 1000 * g / post_boil_volume is at
\* most 250 (50 g of 10 % in 20 l).
C18_WithinFiveIbuAtTestDose ==
    C18_BothReturned /\ C18_Dose(frames[1]) <= 250
    => Abs(frames[1].result - frames[2].result) < 5000

\* Both have returned for the 60-minute addition of 50 g of the test.
C18_Witness ==
    /\ C18_BothReturned
    /\ hops[1].time = 60 /\ hops[1].g = 50 /\ C18_Dose(frames[1]) = 250
    /\ frames[1].nsteps >= 60
    /\ frames[1].result > frames[2].result

\* Boil, whirlpool and forced cooling in the order of the state machine; a
\* frame that has not stepped yet is before all of them.
C19_Phase(branch) ==
    CASE branch = "boil" -> 1
      [] branch = "whirlpool" -> 2
      [] branch = "cooling" -> 3
      [] OTHER -> 0
\* Thread c runs one more integration step of the call it is in.
C19_StepsOn(c) ==
    /\ frames[c].pc = "loop"
    /\ frames'[c].nsteps = frames[c].nsteps + 1
\* After the loop of thread c has been left, by return or by exception,
\* nothing of the call moves any more and no sample is added to the graph:
\* the caller can only take the result.
C19_NoStepAfterExit(c) ==
    frames[c].pc \in {"returned", "raised"}
    => /\ frames'[c] = frames[c] \/ frames'[c] = IdleFrame
       /\ Hopped(frames[c])
          => Len(hops'[frames[c].self].graph.time) <= Len(hops[frames[c].self].graph.time)

\* C19: the branch of successive integration steps of a run of
\* utilization_mibu goes boil, whirlpool, forced cooling and never back: a
\* step never runs a branch earlier than the one of the step before it, and
\* after the loop has been left no step runs.
C19_PhasesNeverGoBack ==
    [][\A c \in Threads :
          /\ C19_StepsOn(c)
             => C19_Phase(frames'[c].branch) >= C19_Phase(frames[c].branch)
          /\ C19_NoStepAfterExit(c)]_vars

\* A call with a whirlpool has returned after boil steps, whirlpool steps
\* and forced-cooling steps.
C19_Witness ==
    \E c \in Threads :
        /\ frames[c].pc = "returned" /\ Integrating(frames[c])
        /\ frames[c].branch = "cooling"
        /\ hops[frames[c].self].time > 0
        /\ frames[c].args.whirlpool_time > 0
        /\ frames[c].nsteps >= hops[frames[c].self].time + frames[c].args.whirlpool_time + 1

\* hop time + whirlpool_time of the call of frame f, in the unit of t.
C20_Boundary(f) == (hops[f.self].time + f.args.whirlpool_time) * TimeScale
\* What one move of the loop of thread c does to the extension of util_time.
C20_ExtensionOf(c) ==
    LET f == frames[c]
        g == frames'[c]
    IN  (f.pc = "loop" /\ g # f)
        => /\ g.extensions <= 1
           /\ g.pc = "loop"
              => (g.extensions = f.extensions + 1
                    <=> (f.extensions = 0 /\ f.t >= C20_Boundary(f)))
           /\ g.extensions # f.extensions
              => /\ g.extensions = 1 /\ g.whirlpool_done
                 /\ g.util_time > f.util_time \/ g.nsteps = f.nsteps + 1
                 /\ f.nsteps = 0 \/ f.t - integration_time < C20_Boundary(f)
           /\ g.pc = "returned"
              => f.extensions = 1 /\ g.extensions = 1 /\ g.nsteps = f.nsteps

\* C20: util_time is extended by cool_time(...) exactly once in every run of
\* utilization_mibu that completes: at the first step whose t reaches hop
\* time + whirlpool_time, never a second time, and the loop is not left by
\* its break before the extension has been applied.
C20_ExtendedExactlyOnce ==
    [][\A c \in Threads : C20_ExtensionOf(c)]_vars

\* A call has returned after steps before the boundary, the extension at the
\* boundary and steps of the forced cooling the extension added.
C20_Witness ==
    \E c \in Threads :
        /\ frames[c].pc = "returned" /\ Integrating(frames[c])
        /\ frames[c].extensions = 1
        /\ C20_Boundary(frames[c]) > 0
        /\ frames[c].util_time > C20_Boundary(frames[c])
        /\ frames[c].nsteps * integration_time >= frames[c].util_time

\* Thread c runs the integration step at time frames[c].t.
C21_Steps(c) ==
    /\ frames[c].pc = "loop" /\ frames'[c].pc = "loop"
    /\ frames'[c].nsteps = frames[c].nsteps + 1
\* Thread c leaves the loop by its break.
C21_Exits(c) == frames[c].pc = "loop" /\ frames'[c].pc = "returned"
\* t is the first step time at or after the limit.
C21_FirstAtOrAfter(t, limit) == t >= limit /\ t - integration_time < limit
\* The step at time t is the one at which the end of the whirlpool is found.
C21_BoundaryStep(f, t) == C21_FirstAtOrAfter(t, C20_Boundary(f)) \/ (t = 0 /\ C20_Boundary(f) <= 0)

\* C21 as stated: the loop of utilization_mibu is left at the first step
\* time t at or after hop time + whirlpool_time + cool time, and no
\* integration step runs at a time t at or after that total duration.
C21_DoneAtTotalDuration ==
    [][\A c \in Threads :
          /\ (C21_Steps(c) /\ frames'[c].whirlpool_done)
             => frames[c].t < C7_TotalDuration(frames'[c])
          /\ C21_Exits(c)
             => C21_FirstAtOrAfter(frames[c].t, C7_TotalDuration(frames[c]))]_vars

\* C21 amended: the first step with t at or after hop time + whirlpool_time,
\* at which the cool time is computed, always runs, also when its t is at or
\* after the total duration (a cool time of zero or below, or shorter than
\* what that step overshoots the end of the whirlpool by). Apart from that
\* step no integration step runs at a time t at or after the total duration,
\* and the loop is left at the first step time after that step which is at or
\* after the total duration.
C21_DoneAtTotalDurationAfterBoundaryStep ==
    [][\A c \in Threads :
          /\ (C21_Steps(c) /\ frames'[c].whirlpool_done)
             => \/ frames[c].t < C7_TotalDuration(frames'[c])
                \/ ~frames[c].whirlpool_done /\ C21_BoundaryStep(frames[c], frames[c].t)
          /\ (C21_Steps(c) /\ ~frames'[c].whirlpool_done)
             => frames[c].t < C20_Boundary(frames[c])
          /\ C21_Exits(c)
             => /\ frames[c].t >= C7_TotalDuration(frames[c])
                /\ frames'[c].nsteps = frames[c].nsteps
                /\ frames'[c].u_total = frames[c].u_total
                /\ \/ frames[c].t - integration_time < C7_TotalDuration(frames[c])
                   \/ C21_BoundaryStep(frames[c], frames[c].t - integration_time)]_vars

\* A call with a target of 100 degrees, so with a cool time of 0, has
\* returned: the step at the end of the boil ran at the total duration.
C21_Witness ==
    \E c \in Threads :
        /\ frames[c].pc = "returned" /\ frames[c].method = "utilization_mibu"
        /\ frames[c].args.temp_target = BoilingC
        /\ hops[frames[c].self].time > 0
        /\ C7_TotalDuration(frames[c]) = C20_Boundary(frames[c])
        /\ frames[c].nsteps * integration_time >= C7_TotalDuration(frames[c]) + integration_time

\* What an integration step of a call with whirlpool_time = 0 runs.
C22_StepWithoutWhirlpool(c) ==
    LET f == frames[c]
        g == frames'[c]
        ends == hops[f.self].time * TimeScale
    IN  (C21_Steps(c) /\ f.args.whirlpool_time = 0)
        => /\ g.branch # "whirlpool"
           /\ g.branch = (IF f.t < ends THEN "boil" ELSE "cooling")
           /\ g.branch = "cooling"
              => /\ g.temp_post_whirlpool = BoilingC
                 /\ g.temp_k = ForcedTempK(BoilingC, f.args.temp_approach,
                                           f.args.cooling_coefficient, f.t - ends)
           /\ (g.branch = "cooling" /\ f.t = ends)
              => kelvin_to_celsius(g.temp_k) = BoilingC

\* C22: with whirlpool_time = 0 no integration step of utilization_mibu runs
\* the whirlpool branch: the steps before hop time are boil steps, the step
\* at t = hop time and every later one is a forced-cooling step, and the
\* forced cooling starts from 100 degrees.
C22_WhirlpoolSkipped ==
    [][\A c \in Threads : C22_StepWithoutWhirlpool(c)]_vars

\* A call with no whirlpool, stepping by a minute, has returned after boil
\* steps and forced-cooling steps that started from 100 degrees at t = hop
\* time.
C22_Witness ==
    \E c \in Threads :
        /\ frames[c].pc = "returned" /\ Integrating(frames[c])
        /\ frames[c].args.whirlpool_time = 0 /\ frames[c].dt = TimeScale
        /\ hops[frames[c].self].time > 0
        /\ frames[c].branch = "cooling" /\ frames[c].temp_post_whirlpool = BoilingC
        /\ frames[c].nsteps > hops[frames[c].self].time + 1

\* C23: at every integration step of utilization_mibu with t >= hop time the
\* gravity of the rate term is post_boil_gravity exactly, and the gravity is
\* recomputed only on the steps with t < hop time.
C23_GravityAfterBoilIsPostBoil ==
    [][\A c \in Threads :
          LET f == frames[c]
              g == frames'[c]
          IN  (C21_Steps(c) /\ f.t >= hops[f.self].time * TimeScale)
              => g.gravity = f.gravity /\ g.gravity = f.args.post_boil_gravity]_vars

\* Temperatures of the wort between the approach temperature and the boil.
C24_Temperatures == {celsius_to_kelvin(c) : c \in {700, 2000, 6000, 8500, BoilingC}}
\* degree_of_utilization at temperature temp_k on the step at time t.
C24_DegreeInRange(temp_k, t) ==
    /\ DegreeOfUtilization(temp_k, t) > 0
    /\ DegreeOfUtilization(temp_k, t) <= Scale
    /\ t < NonIaaMinutes * TimeScale => DegreeOfUtilization(temp_k, t) = Scale

\* C24: at every integration step of utilization_mibu degree_of_utilization
\* lies in (0, 1], and it is exactly 1 on every step with t < 5 minutes
\* whatever the temperature; the step adds dU * degree_of_utilization *
\* integration_time to the total, which is not clamped.
C24_DegreeOfUtilizationClamped ==
    [][\A c \in Threads :
          LET f == frames[c]
              g == frames'[c]
          IN  C21_Steps(c)
              => /\ C24_DegreeInRange(g.temp_k, f.t)
                 /\ \A temp_k \in C24_Temperatures : C24_DegreeInRange(temp_k, f.t)
                 /\ g.u_total = f.u_total
                      + Div(Div(dU(g.gravity, f.t) * DegreeOfUtilization(g.temp_k, f.t), Scale)
                            * integration_time, TimeScale)
                 /\ g.u_total >= f.u_total]_vars

\* A long addition is in its forced cooling, past the first 5 minutes, at a
\* temperature where degree_of_utilization is below 1; at the boil it was
\* held at 1 by the clamp.
C24_Witness ==
    /\ frames[1].pc = "loop" /\ frames[1].branch = "cooling"
    /\ frames[1].t > NonIaaMinutes * TimeScale
    /\ DegreeOfUtilization(frames[1].temp_k, frames[1].t) < Scale
    /\ DegreeOfUtilization(frames[1].temp_k, frames[1].t) > 0
    /\ DegreeOfUtilization(celsius_to_kelvin(BoilingC), frames[1].t) = Scale

\* Thread c runs an integration step with diagnostics enabled.
C25_StepsStoring(c) == C21_Steps(c) /\ store_graph
\* The graph of the hop of thread c before and after its move.
C25_Graph(c) == hops[frames[c].self].graph
C25_GraphAfter(c) == hops'[frames[c].self].graph
\* The step of thread c has appended one sample to each list, with the
\* temperature and the rate of the step.
C25_OneSampleAppended(c) ==
    LET g == frames'[c]
    IN  /\ Len(C25_GraphAfter(c).time) = Len(C25_Graph(c).time) + 1
        /\ C25_GraphAfter(c).temperature
             = Append(C25_Graph(c).temperature, kelvin_to_celsius(g.temp_k))
        /\ C25_GraphAfter(c).utilization
             = Append(C25_Graph(c).utilization,
                      Div(dU(g.gravity, frames[c].t)
                          * DegreeOfUtilization(g.temp_k, frames[c].t), Scale))

\* C25 as stated: with diagnostics enabled each integration step appends one
\* sample (t, temperature, dU * degree_of_utilization) whose time is the
\* elapsed time t of the step, and the trace holds no other sample.
C25_SampleOfElapsedTime ==
    [][\A c \in Threads :
          C25_StepsStoring(c)
          => /\ C25_OneSampleAppended(c)
             /\ C25_GraphAfter(c).time = Append(C25_Graph(c).time, frames[c].t)
             /\ Len(C25_GraphAfter(c).time) = frames'[c].nsteps]_vars

\* C25 amended: with diagnostics enabled the call resets the trace and
\* records the sample (0, 100, None) before the loop, and each integration
\* step then appends one sample (add_time + t, temperature, dU *
\* degree_of_utilization): its time is counted from the start of the boil,
\* add_time = boil_time - hop time before the elapsed time t of the step.
\* The trace of a call that runs alone on its hop holds no other sample.
C25_SampleOfBoilTime ==
    [][\A c \in Threads :
          /\ C25_StepsStoring(c)
             => /\ C25_OneSampleAppended(c)
                /\ C25_GraphAfter(c).time
                     = Append(C25_Graph(c).time,
                              (frames[c].args.boil_time - hops[frames[c].self].time) * TimeScale
                              + frames[c].t)
                /\ Len(C25_GraphAfter(c).time) = frames'[c].nsteps + 1
                /\ C25_GraphAfter(c).time[1] = 0
                /\ C25_GraphAfter(c).temperature[1] = BoilingC
                /\ C25_GraphAfter(c).utilization[1] = None
          /\ (C21_Steps(c) /\ ~store_graph) => C25_GraphAfter(c) = C25_Graph(c)]_vars

\* With diagnostics enabled a call for a hop added after the start of the
\* boil has returned: the graph holds the initial sample and one sample per
\* step, the first of them at add_time.
C25_Witness ==
    \E c \in Threads :
        /\ frames[c].pc = "returned" /\ frames[c].method = "utilization_mibu"
        /\ store_graph /\ frames[c].sg
        /\ frames[c].add_time > 0 /\ frames[c].nsteps >= 2
        /\ Len(hops[frames[c].self].graph.time) = frames[c].nsteps + 1
        /\ hops[frames[c].self].graph.time[2] = frames[c].add_time * TimeScale
        /\ hops[frames[c].self].graph.utilization[1] = None

\* Sequence s is the beginning of sequence t.
C26_Prefix(s, t) == Len(s) <= Len(t) /\ SubSeq(t, 1, Len(s)) = s
C26_NonDecreasing(s) == \A i \in 1..(Len(s) - 1) : s[i] <= s[i + 1]
\* The three lists of a graph go together, in the order of time.
C26_Ordered(hop, graph) ==
    /\ Len(graph.time) = Len(graph.temperature)
    /\ Len(graph.time) = Len(graph.utilization)
    /\ C26_NonDecreasing(graph.time)
    /\ graph.has_ibu => Len(graph.ibu) = Len(graph.utilization)
\* While thread c is in the loop of a call, its move only appends.
C26_AppendOnly(c) ==
    (frames[c].pc = "loop" /\ Integrating(frames[c]))
    => /\ C26_Prefix(C25_Graph(c).time, C25_GraphAfter(c).time)
       /\ C26_Prefix(C25_Graph(c).temperature, C25_GraphAfter(c).temperature)
       /\ C26_Prefix(C25_Graph(c).utilization, C25_GraphAfter(c).utilization)
       /\ (frames'[c].pc = "returned" /\ store_graph)
          => /\ C25_GraphAfter(c).has_ibu
             /\ Len(C25_GraphAfter(c).ibu) = Len(C25_GraphAfter(c).utilization)
             /\ Len(C25_GraphAfter(c).utilization) = frames'[c].nsteps + 1
       /\ frames'[c].pc = "raised"
          => C25_GraphAfter(c) = C25_Graph(c) /\ ~C25_Graph(c).has_ibu

\* C26: the trace is an ordered, append-only sequence. At every point of a
\* run of utilization_mibu with diagnostics enabled, and after an error exit,
\* the time, temperature and utilization lists have equal length; a sample
\* once appended is not modified or removed until the next reset; the times
\* are non-decreasing (hop time <= boil_time); and on a successful return the
\* ibu list has the length of the utilization list.
C26_TraceOrderedAppendOnly ==
    [][/\ \A h \in HopIds : C26_Ordered(hops[h], hops[h].graph)
       /\ \A h \in HopIds : C26_Ordered(hops'[h], hops'[h].graph)
       /\ \A c \in Threads : C26_AppendOnly(c)]_vars

\* With diagnostics enabled a call has returned and left a graph of several
\* samples with their ibu.
C26_Witness ==
    \E c \in Threads :
        /\ frames[c].pc = "returned" /\ Integrating(frames[c]) /\ frames[c].sg
        /\ hops[frames[c].self].graph.has_ibu
        /\ Len(hops[frames[c].self].graph.ibu) >= 4
        /\ hops[frames[c].self].graph.time[2] < hops[frames[c].self].graph.time[3]

\* The move of thread c belongs to a call that runs utilization_mibu while
\* store_graph is True: the call itself, or ibu on a BOIL hop.
C27_StoringMibu(c) ==
    LET g == IF frames[c].pc = "idle" THEN frames'[c] ELSE frames[c]
    IN  /\ frames'[c] # frames[c]
        /\ store_graph
        /\ g.method = "utilization_mibu" \/ (g.method = "ibu" /\ hops[g.self].stage = "BOIL")
\* Thread c starts a call with diagnostics enabled that runs utilization_mibu.
C27_Enters(c) == frames[c].pc = "idle" /\ C27_StoringMibu(c)
\* hop.reset_graph(), which no estimator makes outside utilization_mibu.
C27_Reset(h) == frames' = frames /\ hops'[h].graph = EmptyGraph

\* C27: the graph of a Hop is changed only by utilization_mibu, called
\* directly or through ibu on a BOIL hop, while store_graph is True:
\* utilization_tinseth, ibu_tinseth, ibu on a hop that is not BOIL, and
\* utilization_mibu and ibu with store_graph False leave it exactly as it
\* was. A call that stores starts the graph afresh and only its own steps
\* add to it, so the graph holds the samples of the most recent such call,
\* or is empty when there was none.
C27_GraphChangedOnlyByStoringMibu ==
    [][/\ \A h \in HopIds :
            hops'[h] # hops[h]
            => /\ [hops'[h] EXCEPT !.graph = EmptyGraph] = [hops[h] EXCEPT !.graph = EmptyGraph]
               /\ \/ C27_Reset(h)
                  \/ \E c \in Threads :
                        /\ C27_StoringMibu(c)
                        /\ (IF frames[c].pc = "idle" THEN frames'[c] ELSE frames[c]).self = h
       /\ \A c \in Threads :
            /\ (frames'[c] # frames[c] /\ ~C27_StoringMibu(c)) => hops' = hops
            /\ C27_Enters(c)
               => LET graph == hops'[frames'[c].self].graph
                  IN  /\ graph.time = <<0>> /\ graph.temperature = <<BoilingC>>
                      /\ graph.utilization = <<None>> /\ ~graph.has_ibu
       /\ (\A c \in Threads : frames[c].pc = "idle") /\ ncalls = 0
          => \A h \in HopIds : hops[h].graph = EmptyGraph]_vars

\* After a call that stored its graph, a second call with store_graph False
\* has returned: the graph still holds the samples of the first.
C27_Witness ==
    \E c \in Threads :
        /\ frames[c].pc = "returned" /\ Hopped(frames[c]) /\ ~frames[c].sg
        /\ frames[c].method \in {"utilization_mibu", "ibu"} => frames[c].nsteps > 0
        /\ ncalls = 2 /\ ~store_graph
        /\ hops[frames[c].self].graph.has_ibu
        /\ Len(hops[frames[c].self].graph.time) >= 3

\* The branch the elapsed time t selects for the hop of frame f.
C28_BranchAt(f, t) ==
    IF t < hops[f.self].time * TimeScale THEN "boil"
    ELSE IF t < C20_Boundary(f) THEN "whirlpool"
    ELSE "cooling"
\* What a move of thread c does to the elapsed time t of its call, and what
\* the move does with it.
C28_ElapsedTime(c) ==
    LET f == frames[c]
        g == frames'[c]
    IN  /\ (f.pc = "idle" /\ g.pc = "loop") => g.t = 0
        /\ C21_Steps(c)
           => /\ g.t = f.t + integration_time
              /\ g.t = g.nsteps * integration_time
              /\ g.branch = C28_BranchAt(f, f.t)
              /\ g.u_total = f.u_total
                   + Div(Div(dU(g.gravity, f.t) * DegreeOfUtilization(g.temp_k, f.t), Scale)
                         * integration_time, TimeScale)
              /\ f.whirlpool_done => f.t < f.util_time
        /\ (f.pc = "loop" /\ g.pc \in {"returned", "raised"}) => g.t = f.t
        /\ C21_Exits(c) => f.t >= f.util_time

\* C28: the elapsed time t of utilization_mibu starts at 0 and increases by
\* exactly integration_time after every integration step; it is not reset or
\* rebased at the end of the boil or of the whirlpool, and the same t selects
\* the branch, enters the rate term dU and is compared in the exit test.
C28_ElapsedTimeNeverRebased ==
    [][\A c \in Threads : C28_ElapsedTime(c)]_vars

\* A call is in its forced cooling after a boil and a whirlpool, with t the
\* time since the addition.
C28_Witness ==
    \E c \in Threads :
        /\ frames[c].pc = "loop" /\ Integrating(frames[c])
        /\ frames[c].branch = "cooling" /\ frames[c].args.whirlpool_time > 0
        /\ hops[frames[c].self].time > 0
        /\ frames[c].t > C20_Boundary(frames[c])
        /\ frames[c].t = frames[c].nsteps * integration_time

\* What a move of thread c in its loop does with temp_post_whirlpool.
C29_Capture(c) ==
    LET f == frames[c]
        g == frames'[c]
        flameout == hops[f.self].time * TimeScale
    IN  (f.pc = "loop" /\ g # f /\ f.args.whirlpool_time >= 0)
        => /\ g.err # UnboundLocalError
           /\ (C21_Steps(c) /\ g.branch = "cooling")
              => /\ g.whirlpool_done /\ g.temp_post_whirlpool # Unbound
                 /\ g.extensions = 1
                 /\ g.temp_k = ForcedTempK(g.temp_post_whirlpool, f.args.temp_approach,
                                           f.args.cooling_coefficient,
                                           f.t - C20_Boundary(f))
           /\ (C21_Steps(c) /\ g.branch # "cooling")
              => ~g.whirlpool_done /\ g.temp_post_whirlpool = Unbound
           /\ (~f.whirlpool_done /\ g.whirlpool_done)
              => /\ f.temp_post_whirlpool = Unbound
                 /\ g.temp_post_whirlpool
                      = (IF f.branch = "whirlpool" THEN kelvin_to_celsius(f.temp_k)
                         ELSE BoilingC)
                 /\ f.branch = "whirlpool"
                    => f.temp_k = WhirlpoolTempK(f.args.surface_area, f.opening_area,
                                                 f.args.post_boil_volume,
                                                 f.t - integration_time - flameout)
           /\ f.whirlpool_done => g.temp_post_whirlpool = f.temp_post_whirlpool

\* C29: for whirlpool_time >= 0 the forced-cooling branch of utilization_mibu
\* never runs before temp_post_whirlpool has been captured: the single
\* assignment at the boundary precedes every step that reads it, and the
\* value captured is the temperature of the last whirlpool step, or 100
\* degrees when no whirlpool step ran.
C29_CoolingAfterCapture ==
    [][\A c \in Threads : C29_Capture(c)]_vars

\* A call has returned whose forced cooling started from the temperature the
\* whirlpool had left, below 100 degrees.
C29_Witness ==
    \E c \in Threads :
        /\ frames[c].pc = "returned" /\ Integrating(frames[c])
        /\ frames[c].args.whirlpool_time > 0
        /\ frames[c].branch = "cooling" /\ frames[c].extensions = 1
        /\ frames[c].temp_post_whirlpool < BoilingC
        /\ frames[c].temp_post_whirlpool > frames[c].args.temp_target

\* C30: every call of utilization_mibu that returns has run at least one
\* integration step, also when hop time and whirlpool_time are 0 or when the
\* cool time is 0 or below; so for an addition at flameout (hop time 0)
\* utilization_mibu returns a utilization above 0, while utilization_tinseth
\* returns exactly 0.
C30_AtLeastOneStep ==
    \A c \in Threads :
        LET f == frames[c]
        IN  /\ (f.pc = "returned" /\ f.method = "utilization_mibu")
               => /\ f.nsteps >= 1
                  /\ hops[f.self].time = 0
                     => f.result > 0 /\ utilization_tinseth(f.self, f.args) = 0
            /\ (f.pc = "returned" /\ f.method = "utilization_tinseth"
                /\ hops[f.self].time = 0)
               => f.result = 0

\* utilization_mibu has returned a utilization above 0 for an addition at
\* flameout with no whirlpool and a target of 100 degrees, after one step.
C30_Witness ==
    \E c \in Threads :
        /\ frames[c].pc = "returned" /\ frames[c].method = "utilization_mibu"
        /\ hops[frames[c].self].time = 0 /\ frames[c].args.whirlpool_time = 0
        /\ frames[c].args.temp_target = BoilingC
        /\ frames[c].nsteps = 1 /\ frames[c].result > 0
        /\ utilization_tinseth(frames[c].self, frames[c].args) = 0
====
